---- MODULE Spec2Model ----
(***************************************************************************)
(* Verification model of summa-solvency:                                   *)
(*   - merkle_sum_tree/utils/proof_verification.rs : verify_proof          *)
(*   - backend/src/apis/round.rs : Round, Snapshot, KZG inclusion proofs   *)
(*                                                                         *)
(* Spec      : verify_proof run on Merkle proofs (valid ones produced by   *)
(*             the tree builder, and altered ones).                        *)
(* SpecRound : construction of a Round/Snapshot and inclusion-proof        *)
(*             requests against it.                                        *)
(*                                                                         *)
(* The scalar field is scaled down from the BN256 scalar field to the      *)
(* prime field of Modulus elements; hashes are modelled as injective       *)
(* terms (tuples), group elements by their discrete logarithm.             *)
(***************************************************************************)
EXTENDS Integers, Sequences, FiniteSets, TLC

VARIABLES
    \* ---- verify_proof (proof_verification.rs) ----
    proof,          \* the MerkleProof argument
    origin,         \* how the argument was obtained: valid proof + alteration
    pc,             \* position inside verify_proof
    i,              \* loop index (1-based)
    node,           \* `node`
    balance,        \* `balance` accumulator
    result,         \* returned bool (meaningful when pc = "done")
    \* ---- Round / Snapshot (round.rs) ----
    ctor_input,     \* arguments of Round::new / Snapshot::new (and whether the
                    \* params file is there)
    ctor,           \* outcome of Round::new / Snapshot::new
    snapshot,       \* the constructed Snapshot (advice_polys, entries, trusted_setup)
    gpc,            \* position inside generate_proof_of_inclusion
    via,            \* entry point of the current request: "round" or "snapshot"
    user_index,     \* argument of the current request
    column_index,   \* loop variable
    opened,         \* per processed column: commitment, challenge, z, kzg_proof
    opening_proofs, \* `opening_proofs`
    inclusion       \* the returned KZGInclusionProof

merkleVars == <<proof, origin, pc, i, node, balance, result>>
roundVars == <<ctor_input, ctor, snapshot, gpc, via, user_index, column_index, opened,
               opening_proofs, inclusion>>
vars == <<proof, origin, pc, i, node, balance, result, ctor_input, ctor, snapshot,
          gpc, via,
          user_index, column_index, opened, opening_proofs, inclusion>>

-----------------------------------------------------------------------------
(* Field encoding *)

\* Order of the (scaled-down) scalar field Fp.
Modulus == 41

\* big_int_to_fp / big_uint_to_fp: reduce an arbitrary-precision integer
\* into the field.
big_int_to_fp(x) == x % Modulus

big_uint_to_fp(x) == x % Modulus

-----------------------------------------------------------------------------
(* Merkle sum tree nodes *)

\* Entry::compute_leaf: hash of (identity, balance), balance = entry balance.
compute_leaf(entry) ==
    [hash |-> <<"leaf", big_int_to_fp(entry.username), big_int_to_fp(entry.balance)>>,
     balance |-> big_int_to_fp(entry.balance)]

\* create_middle_node: balance = left + right, hash binds both child hashes
\* and the combined balance.
create_middle_node(left, right) ==
    [hash |-> <<"mid", left.hash, right.hash, (left.balance + right.balance) % Modulus>>,
     balance |-> (left.balance + right.balance) % Modulus]

-----------------------------------------------------------------------------
(* Bounds of the Merkle inputs *)

MaxDepth == 2
MaxUser == 2
MaxPathValue == 2
MaxSumDelta == 2

\* Entry balances include values at and above the field order.
EntryBalances == {0, 1, Modulus - 1, Modulus + 2}
SiblingBalances == {1, Modulus - 1}

MerkleEntries == [username : 1..MaxUser, balance : EntryBalances]

JunkHash == <<"junk">>

-----------------------------------------------------------------------------
(* Tree builder (external to verify_proof): the path of one leaf *)

PaddingEntry == [username |-> 0, balance |-> 0]

RECURSIVE PaddingSubtree(_)
PaddingSubtree(h) ==
    IF h = 0 THEN compute_leaf(PaddingEntry)
    ELSE create_middle_node(PaddingSubtree(h - 1), PaddingSubtree(h - 1))

\* Root of the sibling subtree of height h: one user entry, padded with
\* zero entries.
RECURSIVE SiblingSubtree(_, _)
SiblingSubtree(e, h) ==
    IF h = 0 THEN compute_leaf(e)
    ELSE create_middle_node(SiblingSubtree(e, h - 1), PaddingSubtree(h - 1))

\* Node on the path of `entry` after k levels; dirs[k] = 0 when the path
\* node is the left child at level k, 1 when it is the right child.
RECURSIVE PathNode(_, _, _, _)
PathNode(entry, sibs, dirs, k) ==
    IF k = 0 THEN compute_leaf(entry)
    ELSE IF dirs[k] = 0
         THEN create_middle_node(PathNode(entry, sibs, dirs, k - 1), sibs[k])
         ELSE create_middle_node(sibs[k], PathNode(entry, sibs, dirs, k - 1))

\* The MerkleProof the tree builder hands out for `entry`.
BuildProof(entry, sibBalances, dirs) ==
    LET d == Len(dirs)
        sibs == [h \in 1..d |->
                    SiblingSubtree([username |-> MaxUser + h, balance |-> sibBalances[h]],
                                   h - 1)]
    IN [entry |-> entry,
        root_hash |-> PathNode(entry, sibs, dirs, d).hash,
        sibling_hashes |-> [h \in 1..d |-> sibs[h].hash],
        sibling_sums |-> [h \in 1..d |-> sibs[h].balance],
        path_indices |-> dirs]

SeqsOfLen(S, n) == [1..n -> S]

ValidProofs ==
    UNION {{BuildProof(e, sb, dirs) :
                e \in MerkleEntries, sb \in SeqsOfLen(SiblingBalances, d),
                dirs \in SeqsOfLen({0, 1}, d)} : d \in 0..MaxDepth}

DropLast(s) == SubSeq(s, 1, Len(s) - 1)

EqualLengths(p) ==
    /\ Len(p.sibling_sums) = Len(p.sibling_hashes)
    /\ Len(p.path_indices) = Len(p.sibling_hashes)

-----------------------------------------------------------------------------
(* verify_proof *)

\* lines 17-21: which side the running node takes.
FoldStep(n, sibling_node, path_index) ==
    IF path_index = 0
    THEN create_middle_node(n, sibling_node)
    ELSE create_middle_node(sibling_node, n)

AccumulateNothing(b, sibling_node) == b

\* line 23: balance += sibling_node.balance (field addition).
AccumulateBalance(b, sibling_node) == (b + sibling_node.balance) % Modulus

FinalCheckEither(p, n, b) == p.root_hash = n.hash \/ b = n.balance

\* line 26.
FinalCheck(p, n, b) == p.root_hash = n.hash /\ b = n.balance

\* The caller's argument: a proof from the tree builder, possibly altered in
\* one place (kind, level say where).
Levels(v) == 1..Len(v.sibling_hashes)

ProofInputs ==
    {[p |-> v, kind |-> "none", level |-> 0] : v \in ValidProofs}
    \cup
    UNION {{[p |-> [v EXCEPT !.sibling_hashes[k] = h], kind |-> "hash", level |-> k] :
                k \in Levels(v), h \in {JunkHash, compute_leaf(PaddingEntry).hash}} :
           v \in ValidProofs}
    \cup
    UNION {{[p |-> [v EXCEPT !.sibling_sums[k] = (@ + dlt) % Modulus],
             kind |-> "sum", level |-> k] :
                k \in Levels(v), dlt \in 1..MaxSumDelta} :
           v \in ValidProofs}
    \cup
    UNION {{[p |-> [v EXCEPT !.path_indices[k[1]] = k[2]], kind |-> "path", level |-> k[1]] :
                k \in {kx \in Levels(v) \X (0..MaxPathValue) :
                            kx[2] # v.path_indices[kx[1]]}} :
           v \in ValidProofs}
    \cup
    {[p |-> [v EXCEPT !.root_hash = JunkHash], kind |-> "root", level |-> 0] :
        v \in ValidProofs}
    \cup
    {[p |-> [v EXCEPT !.sibling_sums = DropLast(@)], kind |-> "short_sums", level |-> 0] :
        v \in {w \in ValidProofs : Len(w.sibling_hashes) >= 1}}
    \cup
    {[p |-> [v EXCEPT !.path_indices = DropLast(@)], kind |-> "short_path", level |-> 0] :
        v \in {w \in ValidProofs : Len(w.sibling_hashes) >= 1}}
    \cup
    {[p |-> [v EXCEPT !.sibling_hashes = Append(@, JunkHash)], kind |-> "long_hashes",
      level |-> 0] : v \in ValidProofs}
    \cup
    {[p |-> [v EXCEPT !.sibling_sums = Append(@, 1)], kind |-> "long_sums", level |-> 0] :
        v \in ValidProofs}
    \cup
    {[p |-> [v EXCEPT !.path_indices = Append(@, 0)], kind |-> "long_path", level |-> 0] :
        v \in ValidProofs}

NoNode == [hash |-> JunkHash, balance |-> 0]

\* A caller invokes verify_proof(&proof).
MerkleInit ==
    /\ \E inp \in ProofInputs :
          /\ proof = inp.p
          /\ origin = [kind |-> inp.kind, level |-> inp.level]
    /\ pc = "start"
    /\ i = 1
    /\ node = NoNode
    /\ balance = 0
    /\ result = FALSE

\* lines 8-9
Begin ==
    /\ pc = "start"
    /\ node' = compute_leaf(proof.entry)
    /\ balance' = big_int_to_fp(proof.entry.balance)
    /\ i' = 1
    /\ pc' = "loop"
    /\ UNCHANGED <<proof, origin, result>>

\* lines 11-24, one iteration whose indexing is in bounds
LoopStep ==
    /\ pc = "loop"
    /\ i <= Len(proof.sibling_hashes)
    /\ i <= Len(proof.sibling_sums)
    /\ i <= Len(proof.path_indices)
    /\ LET sibling_node == [hash |-> proof.sibling_hashes[i],
                            balance |-> proof.sibling_sums[i]]
       IN /\ node' = FoldStep(node, sibling_node, proof.path_indices[i])
          /\ balance' = AccumulateBalance(balance, sibling_node)
    /\ i' = i + 1
    /\ UNCHANGED <<proof, origin, pc, result>>

\* lines 14 and 17: proof.sibling_sums[i] / proof.path_indices[i] with i past
\* the end of the vector panics (index out of bounds).
LoopPanic ==
    /\ pc = "loop"
    /\ i <= Len(proof.sibling_hashes)
    /\ \/ i > Len(proof.sibling_sums)
       \/ i > Len(proof.path_indices)
    /\ pc' = "panic"
    /\ UNCHANGED <<proof, origin, i, node, balance, result>>

\* line 26
Return ==
    /\ pc = "loop"
    /\ i > Len(proof.sibling_hashes)
    /\ result' = FinalCheck(proof, node, balance)
    /\ pc' = "done"
    /\ UNCHANGED <<proof, origin, i, node, balance>>

-----------------------------------------------------------------------------
(* Field arithmetic, evaluation domain *)

\* Field::pow_vartime: square-and-multiply over the bits of the exponent.
RECURSIVE pow_vartime(_, _)
pow_vartime(b, e) ==
    IF e = 0 THEN 1
    ELSE LET h == pow_vartime(b, e \div 2)
         IN IF e % 2 = 0 THEN (h * h) % Modulus ELSE (((h * h) % Modulus) * b) % Modulus

Inverse(x) == pow_vartime(x, Modulus - 2)

\* Modulus - 1 = 2^TwoAdicity * 5; RootOfUnity generates the subgroup of
\* order 2^TwoAdicity.
TwoAdicity == 3
RootOfUnity == 27

\* vk.get_domain().get_omega(): generator of the domain of size 2^k.
get_omega(k) == pow_vartime(RootOfUnity, 2 ^ (TwoAdicity - k))

DomainSize(k) == 2 ^ k

\* Value of the polynomial with coefficients f[1] + f[2] X + ... at x.
RECURSIVE EvalFrom(_, _, _)
EvalFrom(f, x, j) ==
    IF j > Len(f) THEN 0 ELSE (f[j] + x * EvalFrom(f, x, j + 1)) % Modulus

EvalPoly(f, x) == EvalFrom(f, x, 1)

-----------------------------------------------------------------------------
(* KZG over the trusted setup; a G1 point is its discrete logarithm *)

\* The setup's secret evaluation point (outside every domain).
Secret == 6

\* commit_kzg(params, f) = [f(s)]G1
commit_kzg(f) == EvalPoly(f, Secret)

\* kate_division: quotient of a by (X - b), remainder dropped.
kate_division(a, b) ==
    LET n == Len(a)
        q[j \in 1..(n - 1)] ==
            IF j = n - 1 THEN a[n] ELSE (a[j + 1] + b * q[j + 1]) % Modulus
    IN [j \in 1..(n - 1) |-> q[j]]

\* create_naive_kzg_proof: commitment to (f - z) / (X - challenge).
create_naive_kzg_proof(f, challenge, z) ==
    LET numerator == [f EXCEPT ![1] = (@ + Modulus - z) % Modulus]
    IN commit_kzg(kate_division(numerator, challenge))

\* verify_kzg_proof: e(pi, [s]G2 - [x]G2) = e(C - [z]G1, G2)
verify_kzg_proof(commitment, pi, x, z) ==
    (pi * ((Secret + Modulus - x) % Modulus)) % Modulus
        = (commitment + Modulus - z) % Modulus

\* Curve::to_affine: coordinates of a point (the identity maps to (0, 0)).
to_affine(pt) ==
    IF pt = 0 THEN [x |-> 0, y |-> 0]
    ELSE [x |-> 300 * pt + 1, y |-> 500 * pt + 2]

\* Width in bytes of a serialized coordinate.
CoordBytes == 2

\* to_bytes(): fixed-width little-endian.
to_bytes(v) == [b \in 1..CoordBytes |-> (v \div (256 ^ (b - 1))) % 256]

\* <[u8]>::reverse
reverse(s) == [j \in 1..Len(s) |-> s[Len(s) + 1 - j]]

-----------------------------------------------------------------------------
(* Inputs of Round::new / Snapshot::new *)

N_CURRENCIES == 1
MaxEntries == 4
MaxUserIndex == 5

\* Balances offered for the entry at position r.
RowBalances(r) == {10 * r, 10, 30}
UsernameBase == Modulus - 3

\* Entry<N_CURRENCIES>: username (as big uint) and one balance per currency;
\* the entry at position r carries username UsernameBase + r.
EntryInputs ==
    UNION {{[r \in 1..L |-> [username |-> UsernameBase + r, balances |-> bs[r]]] :
                bs \in {b \in SeqsOfLen(SeqsOfLen(UNION {RowBalances(r) : r \in 1..L},
                                                  N_CURRENCIES), L) :
                            \A r \in 1..L : \A c \in 1..N_CURRENCIES :
                                b[r][c] \in RowBalances(r)}} :
           L \in 1..MaxEntries}

\* Value of column c (0 = username, c >= 1 = currency c) in row r.
ColumnValue(entries, c, r) ==
    IF r > Len(entries) THEN 0
    ELSE IF c = 0 THEN big_uint_to_fp(entries[r].username)
         ELSE big_uint_to_fp(entries[r].balances[c])

\* The witness generator: the coefficient form of the polynomial that takes
\* the column's value of row r at omega^(r-1) (inverse DFT).
Interpolate(entries, c, k) ==
    LET n == DomainSize(k)
        winv == Inverse(get_omega(k))
        ninv == Inverse(n % Modulus)
        PartialSum[m \in 1..n, r \in 0..n] ==
            IF r = 0 THEN 0
            ELSE (PartialSum[m, r - 1]
                    + ColumnValue(entries, c, r)
                        * pow_vartime(winv, (r - 1) * (m - 1))) % Modulus
    IN [m \in 1..n |-> (ninv * PartialSum[m, n]) % Modulus]

WitnessPolys(entries, k) == [c \in 1..(N_CURRENCIES + 1) |-> Interpolate(entries, c - 1, k)]

\* advice_polys handed to the constructor: the witness of the entries, the
\* witness with one column's polynomial off, or one column short.
AdviceInputs(entries, k) ==
    LET w == WitnessPolys(entries, k)
    IN {w, DropLast(w)}
       \cup {[w EXCEPT ![c][1] = (@ + 1) % Modulus] : c \in 1..(N_CURRENCIES + 1)}

\* params_path values, as character sequences.
PathInputs ==
    { <<"k", "-", "2">>, <<"2">>, <<"k", "-", "1">>, <<"p", "-", "1", "-", "3">>,
      <<"k", "-", "+", "2">>, <<"k", "-", "1", "2">>,
      <<"k", "-", "x">>, <<"k", "-">>, <<"k", "-", "+">>, <<>> }

\* str::split(sep): the segments between separators (at least one, maybe empty).
RECURSIVE split(_, _)
split(s, sep) ==
    IF s = <<>> THEN << <<>> >>
    ELSE LET rest == split(Tail(s), sep)
         IN IF Head(s) = sep THEN << <<>> >> \o rest
            ELSE << <<Head(s)>> \o rest[1] >> \o Tail(rest)

Digits == <<"0", "1", "2", "3", "4", "5", "6", "7", "8", "9">>

DigitValue(c) ==
    IF \E d \in 1..10 : Digits[d] = c THEN (CHOOSE d \in 1..10 : Digits[d] = c) - 1 ELSE -1

\* str::parse::<u32>: -1 stands for Err. An optional leading '+', then one or
\* more decimal digits. (The paths of PathInputs are shorter than ten
\* characters, so the value always fits u32 and the overflow error of parse
\* cannot arise.)
RECURSIVE ParseDigits(_, _)
ParseDigits(s, acc) ==
    IF s = <<>> THEN acc
    ELSE IF DigitValue(Head(s)) < 0 THEN -1
    ELSE ParseDigits(Tail(s), acc * 10 + DigitValue(Head(s)))

parse_u32(s) ==
    LET body == IF s # <<>> /\ Head(s) = "+" THEN Tail(s) ELSE s
    IN IF body = <<>> THEN -1 ELSE ParseDigits(body, 0)

\* generate_setup_artifacts(k, Some(params_path), circuit): Err when the
\* params file is missing or the domain of size 2^k cannot hold the circuit.
SetupOk(k, file_ok, entries) ==
    /\ file_ok
    /\ k <= TwoAdicity
    /\ DomainSize(k) >= Len(entries)

-----------------------------------------------------------------------------
(* Round / Snapshot *)

NoSnapshot == [advice_polys |-> <<>>, entries |-> <<>>, k |-> 0]

NoInclusion == [public_inputs |-> <<>>, proof_calldata |-> <<>>]

NoInput == [params_path |-> <<>>, file_ok |-> FALSE, entries |-> <<>>, advice_polys |-> <<>>]

RoundIdle ==
    /\ ctor_input = NoInput
    /\ ctor = "none"
    /\ snapshot = NoSnapshot
    /\ gpc = "idle"
    /\ via = "none"
    /\ user_index = 0
    /\ column_index = 0
    /\ opened = <<>>
    /\ opening_proofs = <<>>
    /\ inclusion = NoInclusion

\* Snapshot::new lines 140-142: k from the last '-'-separated part.
ParsedK(params_path) ==
    LET parts == split(params_path, "-")
        last_part == parts[Len(parts)]
    IN parse_u32(last_part)

\* Snapshot::new: "panic" at an unwrap (lines 142, 145), else the Snapshot.
SnapshotNewOutcome(params_path, file_ok, entries, advice_polys) ==
    LET k == ParsedK(params_path)
    IN IF k < 0 THEN [status |-> "panic_parse", snapshot |-> NoSnapshot]
       ELSE IF ~SetupOk(k, file_ok, entries)
            THEN [status |-> "panic_setup", snapshot |-> NoSnapshot]
            ELSE [status |-> "ok",
                  snapshot |-> [advice_polys |-> advice_polys, entries |-> entries, k |-> k]]

\* The caller's advice polynomials are over the domain the params name; with
\* an unusable params_path there is no domain and the witness is left out.
ConstructorInputs ==
    UNION {UNION {{[params_path |-> pth, file_ok |-> fo, entries |-> es, advice_polys |-> ap] :
                        fo \in BOOLEAN,
                        ap \in IF ParsedK(pth) >= 0 /\ SetupOk(ParsedK(pth), TRUE, es)
                               THEN AdviceInputs(es, ParsedK(pth)) ELSE {<<>>}} :
                   es \in EntryInputs} :
           pth \in PathInputs}

\* Snapshot::new (lines 131-152) called directly.
SnapshotNew ==
    /\ ctor = "none"
    /\ \E inp \in ConstructorInputs :
          LET out == SnapshotNewOutcome(inp.params_path, inp.file_ok, inp.entries,
                                        inp.advice_polys)
          IN /\ ctor_input' = inp
             /\ ctor' = IF out.status = "ok" THEN "snapshot" ELSE out.status
             /\ snapshot' = out.snapshot
    /\ UNCHANGED <<gpc, via, user_index, column_index, opened, opening_proofs, inclusion>>

\* Round::new (lines 68-85): Snapshot::new(...).unwrap() inside Ok(Round {..}).
RoundNew ==
    /\ ctor = "none"
    /\ \E inp \in ConstructorInputs :
          LET out == SnapshotNewOutcome(inp.params_path, inp.file_ok, inp.entries,
                                        inp.advice_polys)
          IN /\ ctor_input' = inp
             /\ ctor' = IF out.status = "ok" THEN "round" ELSE out.status
             /\ snapshot' = out.snapshot
    /\ UNCHANGED <<gpc, via, user_index, column_index, opened, opening_proofs, inclusion>>

ChallengePointNextRow(omega, idx) == pow_vartime(omega, idx + 1)

\* line 171
ChallengePoint(omega, idx) == pow_vartime(omega, idx)

\* lines 173-180
ClaimedValue(user_entry, col) ==
    IF col = 0 THEN big_uint_to_fp(user_entry.username)
    ELSE big_uint_to_fp(user_entry.balances[col])

SelfCheckSkipped(commitment, pi, challenge, z) == TRUE

\* lines 190-194: the condition of the assert!
SelfCheck(commitment, pi, challenge, z) == verify_kzg_proof(commitment, pi, challenge, z)

SerializePointLittleEndian(pt) ==
    LET kzg_proof_affine == to_affine(pt)
    IN to_bytes(kzg_proof_affine.x) \o to_bytes(kzg_proof_affine.y)

\* lines 197-203
SerializePoint(pt) ==
    LET kzg_proof_affine == to_affine(pt)
    IN reverse(to_bytes(kzg_proof_affine.x)) \o reverse(to_bytes(kzg_proof_affine.y))

\* [..].concat() over a vector of byte vectors
RECURSIVE concat(_)
concat(ss) == IF ss = <<>> THEN <<>> ELSE Head(ss) \o concat(Tail(ss))

\* lines 206-209
MakeInclusionProof(proofs) == [public_inputs |-> <<>>, proof_calldata |-> concat(proofs)]

StartRequest(entry_point, idx) ==
    /\ gpc = "idle"
    /\ via' = entry_point
    /\ user_index' = idx
    /\ column_index' = 0
    /\ opened' = <<>>
    /\ opening_proofs' = <<>>
    /\ inclusion' = NoInclusion
    /\ gpc' = "column"
    /\ UNCHANGED <<ctor_input, ctor, snapshot>>

\* Round::get_proof_of_inclusion (lines 96-105) entering
\* snapshot.generate_proof_of_inclusion with the snapshot's entries.
RoundGetProof == ctor = "round" /\ \E idx \in 0..MaxUserIndex : StartRequest("round", idx)

\* Snapshot::generate_proof_of_inclusion (lines 154-166) called directly.
SnapshotGenerateProof ==
    ctor = "snapshot" /\ \E idx \in 0..MaxUserIndex : StartRequest("snapshot", idx)

\* One pass of the column loop, lines 167-204, in which no unwrap and no
\* assert fails.
ColumnOpen ==
    /\ gpc = "column"
    /\ column_index < N_CURRENCIES + 1
    /\ column_index + 1 <= Len(snapshot.advice_polys)
    /\ user_index + 1 <= Len(snapshot.entries)
    /\ LET f_poly == snapshot.advice_polys[column_index + 1]
           kzg_commitment == commit_kzg(f_poly)
           challenge == ChallengePoint(get_omega(snapshot.k), user_index)
           z == ClaimedValue(snapshot.entries[user_index + 1], column_index)
           kzg_proof == create_naive_kzg_proof(f_poly, challenge, z)
       IN /\ SelfCheck(kzg_commitment, kzg_proof, challenge, z)
          /\ opened' = Append(opened, [commitment |-> kzg_commitment, challenge |-> challenge,
                                       z |-> z, kzg_proof |-> kzg_proof])
          /\ opening_proofs' = Append(opening_proofs, SerializePoint(kzg_proof))
    /\ column_index' = column_index + 1
    /\ UNCHANGED <<ctor_input, ctor, snapshot, gpc, via, user_index, inclusion>>

\* lines 168 and 174: .get(..).unwrap() on a missing column polynomial or a
\* missing entry panics.
ColumnUnwrapPanic ==
    /\ gpc = "column"
    /\ column_index < N_CURRENCIES + 1
    /\ \/ column_index + 1 > Len(snapshot.advice_polys)
       \/ user_index + 1 > Len(snapshot.entries)
    /\ gpc' = "panic_unwrap"
    /\ UNCHANGED <<ctor_input, ctor, snapshot, via, user_index, column_index, opened, opening_proofs,
                   inclusion>>

\* lines 190-194: the assert! fails.
ColumnAssertPanic ==
    /\ gpc = "column"
    /\ column_index < N_CURRENCIES + 1
    /\ column_index + 1 <= Len(snapshot.advice_polys)
    /\ user_index + 1 <= Len(snapshot.entries)
    /\ LET f_poly == snapshot.advice_polys[column_index + 1]
           kzg_commitment == commit_kzg(f_poly)
           challenge == ChallengePoint(get_omega(snapshot.k), user_index)
           z == ClaimedValue(snapshot.entries[user_index + 1], column_index)
           kzg_proof == create_naive_kzg_proof(f_poly, challenge, z)
       IN ~SelfCheck(kzg_commitment, kzg_proof, challenge, z)
    /\ gpc' = "panic_assert"
    /\ UNCHANGED <<ctor_input, ctor, snapshot, via, user_index, column_index, opened, opening_proofs,
                   inclusion>>

\* lines 206-209 (and Ok(..unwrap()) of Round::get_proof_of_inclusion)
ReturnProof ==
    /\ gpc = "column"
    /\ column_index = N_CURRENCIES + 1
    /\ inclusion' = MakeInclusionProof(opening_proofs)
    /\ gpc' = "returned"
    /\ UNCHANGED <<ctor_input, ctor, snapshot, via, user_index, column_index, opened, opening_proofs>>

\* The caller has the result; the Round/Snapshot serves the next request.
NextRequest ==
    /\ gpc = "returned"
    /\ gpc' = "idle"
    /\ UNCHANGED <<ctor_input, ctor, snapshot, via, user_index, column_index, opened, opening_proofs,
                   inclusion>>

MerkleIdle ==
    /\ proof = [entry |-> PaddingEntry, root_hash |-> JunkHash, sibling_hashes |-> <<>>,
                sibling_sums |-> <<>>, path_indices |-> <<>>]
    /\ origin = [kind |-> "none", level |-> 0]
    /\ pc = "idle"
    /\ i = 1
    /\ node = NoNode
    /\ balance = 0
    /\ result = FALSE

-----------------------------------------------------------------------------
(* Specifications *)

Init == MerkleInit /\ RoundIdle

Next ==
    \/ Begin /\ UNCHANGED roundVars
    \/ LoopStep /\ UNCHANGED roundVars
    \/ LoopPanic /\ UNCHANGED roundVars
    \/ Return /\ UNCHANGED roundVars

Spec == Init /\ [][Next]_vars

InitRound == MerkleIdle /\ RoundIdle

NextRound ==
    \/ SnapshotNew /\ UNCHANGED merkleVars
    \/ RoundNew /\ UNCHANGED merkleVars
    \/ RoundGetProof /\ UNCHANGED merkleVars
    \/ SnapshotGenerateProof /\ UNCHANGED merkleVars
    \/ ColumnOpen /\ UNCHANGED merkleVars
    \/ ColumnUnwrapPanic /\ UNCHANGED merkleVars
    \/ ColumnAssertPanic /\ UNCHANGED merkleVars
    \/ ReturnProof /\ UNCHANGED merkleVars
    \/ NextRequest /\ UNCHANGED merkleVars

SpecRound == InitRound /\ [][NextRound]_vars

-----------------------------------------------------------------------------
(* Properties of verify_proof (checked under Spec) *)

\* The node obtained by folding the leaf of p.entry with the first k siblings,
\* level by level.
RECURSIVE FoldedNode(_, _)
FoldedNode(p, k) ==
    IF k = 0 THEN compute_leaf(p.entry)
    ELSE LET below == FoldedNode(p, k - 1)
             sib == [hash |-> p.sibling_hashes[k], balance |-> p.sibling_sums[k]]
         IN IF p.path_indices[k] = 0
            THEN create_middle_node(below, sib)
            ELSE create_middle_node(sib, below)

RECURSIVE SumPrefix(_, _)
SumPrefix(s, k) == IF k = 0 THEN 0 ELSE s[k] + SumPrefix(s, k - 1)

Depth(p) == Len(p.sibling_hashes)

\* C1: on a proof whose three sibling sequences have equal length,
\* verify_proof returns (it does not panic) and its result is true exactly
\* when (a) the hash of the node folded from the leaf through every sibling
\* equals root_hash and (b) the encoded entry balance plus all sibling sums
\* equals that node's balance; it is false when either check fails.
C1_VerdictIffHashAndBalance ==
    EqualLengths(proof) =>
        /\ pc # "panic"
        /\ pc = "done" =>
             LET final == FoldedNode(proof, Depth(proof))
                 hashOk == final.hash = proof.root_hash
                 balanceOk == (big_int_to_fp(proof.entry.balance)
                                 + SumPrefix(proof.sibling_sums, Depth(proof))) % Modulus
                              = final.balance
             IN /\ result <=> (hashOk /\ balanceOk)
                /\ (~hashOk \/ ~balanceOk) => result = FALSE

C1_Witness ==
    /\ pc = "done"
    /\ EqualLengths(proof)
    /\ Depth(proof) = MaxDepth
    /\ origin.kind = "none"
    /\ result = TRUE

\* C2: the proof the tree builder hands out for a leaf verifies true against
\* the tree's root, and the same proof with exactly one sibling hash, sibling
\* sum or path indicator changed verifies false.
C2_ValidVerifiesAlteredFails ==
    pc = "done" =>
        /\ origin.kind = "none" => result = TRUE
        /\ origin.kind \in {"hash", "sum", "path"} => result = FALSE

\* C3: on a proof whose sibling_hashes, sibling_sums and path_indices differ
\* in length, verify_proof does not panic and returns false.
C3_MismatchedLengthsReturnFalse ==
    ~EqualLengths(proof) =>
        /\ pc # "panic"
        /\ pc = "done" => result = FALSE

\* C4: verify_proof returns false for every proof holding a path indicator
\* other than 0 and 1.
C4_IllegalPathIndicatorRejected ==
    (pc = "done" /\ \E k \in 1..Len(proof.path_indices) : proof.path_indices[k] \notin {0, 1})
        => result = FALSE

\* C10: after every level the accumulator `balance` equals node.balance, both
\* being the encoded entry balance plus the sibling sums folded so far; so on
\* an equal-length proof the balance comparison of the final check holds and
\* the result is the root-hash comparison alone.
C10_AccumulatorTracksNodeBalance ==
    /\ pc = "loop" =>
         /\ balance = node.balance
         /\ balance = (big_int_to_fp(proof.entry.balance)
                         + SumPrefix(proof.sibling_sums, i - 1)) % Modulus
    /\ (pc = "done" /\ EqualLengths(proof)) =>
         /\ balance = node.balance
         /\ result = (proof.root_hash = node.hash)

C10_Witness ==
    /\ pc = "loop"
    /\ i = MaxDepth + 1
    /\ balance # big_int_to_fp(proof.entry.balance)
    /\ origin.kind = "sum"

-----------------------------------------------------------------------------
(* Properties of Round / Snapshot (checked under SpecRound) *)

\* omega^e by repeated multiplication.
RECURSIVE Power(_, _)
Power(b, e) == IF e = 0 THEN 1 ELSE (b * Power(b, e - 1)) % Modulus

Omega == get_omega(snapshot.k)

Columns == 0..N_CURRENCIES

\* The field encoding of what entry `idx` holds in column c.
EntryValue(idx, c) ==
    IF c = 0 THEN snapshot.entries[idx + 1].username % Modulus
    ELSE snapshot.entries[idx + 1].balances[c] % Modulus

RequestActive == gpc # "idle"

ValidIndex == user_index < Len(snapshot.entries)

AllColumnsPresent == Len(snapshot.advice_polys) = N_CURRENCIES + 1

\* C5: a request (through the Round or the Snapshot) whose user_index is at
\* or past the number of entries ends with an Err value for the caller, not
\* with a panic.
C5_OutOfRangeIndexIsErr ==
    (gpc \notin {"idle", "column"} /\ AllColumnsPresent /\ ~ValidIndex) => gpc = "err"

\* The last '-'-separated part of the path is no unsigned integer.
MalformedPath(pth) ==
    LET parts == split(pth, "-")
    IN parse_u32(parts[Len(parts)]) < 0

\* C6: Snapshot::new / Round::new answer a params_path whose last part is no
\* unsigned integer, or a failed setup-artifact generation, with Err: no
\* Snapshot or Round exists and nothing panicked.
C6_ConstructionFaultIsErr ==
    (/\ ctor # "none"
     /\ \/ MalformedPath(ctor_input.params_path)
        \/ ~SetupOk(ParsedK(ctor_input.params_path), ctor_input.file_ok,
                    ctor_input.entries))
    => (ctor = "err" /\ snapshot = NoSnapshot)

\* Every column opened so far was opened at omega^user_index to the entry's
\* encoded value of that column, and the points of distinct rows differ.
OpenedAtRowPoint ==
    \A c \in 1..Len(opened) :
        /\ opened[c].challenge = Power(Omega, user_index)
        /\ opened[c].z = EntryValue(user_index, c - 1)
        /\ opened[c].commitment = commit_kzg(snapshot.advice_polys[c])
        /\ \A j \in 0..(DomainSize(snapshot.k) - 1) :
              j # user_index => Power(Omega, j) # Power(Omega, user_index)

OtherRows == {j \in 0..(DomainSize(snapshot.k) - 1) : j # user_index}

\* The scenario of balances [10, 20, 30, 40] over a domain of size 4: index 2
\* opens column 1 at omega^2 to 30, and the opening fails at omega^1.
ScenarioHolds ==
    (/\ snapshot.k = 2
     /\ Len(snapshot.entries) = 4
     /\ \A r \in 1..4 : snapshot.entries[r].balances[1] = 10 * r
     /\ user_index = 2
     /\ Len(opened) >= 2)
    => /\ opened[2].challenge = (Omega * Omega) % Modulus
       /\ opened[2].z = 30
       /\ ~verify_kzg_proof(opened[2].commitment, opened[2].kzg_proof, Omega, 30)

\* C7 (as claimed): ... and an opening produced for index i never verifies,
\* with its value, against the point of another index j.
C7_OpeningNeverVerifiesAtOtherRow ==
    /\ OpenedAtRowPoint
    /\ ScenarioHolds
    /\ \A c \in 1..Len(opened) : \A j \in OtherRows :
          ~verify_kzg_proof(opened[c].commitment, opened[c].kzg_proof,
                            Power(Omega, j), opened[c].z)

\* C7 (amended): every column is opened at omega^user_index to the entry's
\* encoded username (column 0) or balance (column c >= 1); points of distinct
\* rows of the domain differ; the scenario holds; and an opening for index i
\* verifies with its value against the point of another index j exactly when
\* the opening proof is the identity point (the quotient commits to zero, as
\* for a constant column).
C7_OpeningBoundToRowUnlessIdentity ==
    /\ OpenedAtRowPoint
    /\ ScenarioHolds
    /\ \A c \in 1..Len(opened) : \A j \in OtherRows :
          verify_kzg_proof(opened[c].commitment, opened[c].kzg_proof,
                           Power(Omega, j), opened[c].z)
            <=> opened[c].kzg_proof = 0

C7_Witness ==
    /\ snapshot.k = 2
    /\ Len(snapshot.entries) = 4
    /\ \A r \in 1..4 : snapshot.entries[r].balances[1] = 10 * r
    /\ user_index = 2
    /\ Len(opened) = N_CURRENCIES + 1
    /\ opened[2].z = 30
    /\ opened[2].kzg_proof # 0

\* Big-endian fixed-width bytes of a coordinate.
BigEndian(v) == [b \in 1..CoordBytes |-> (v \div (256 ^ (CoordBytes - b))) % 256]

\* The opening-proof point of column c (0-based) for the current request.
ColumnProofPoint(c) ==
    to_affine(create_naive_kzg_proof(snapshot.advice_polys[c + 1],
                                     Power(Omega, user_index), EntryValue(user_index, c)))

RECURSIVE CalldataUpTo(_)
CalldataUpTo(c) ==
    IF c < 0 THEN <<>>
    ELSE CalldataUpTo(c - 1) \o BigEndian(ColumnProofPoint(c).x)
                             \o BigEndian(ColumnProofPoint(c).y)

\* C8: the returned proof_calldata is the concatenation, for columns
\* 0..N_CURRENCIES in increasing order, of the big-endian x then y coordinate
\* of the column's opening proof (N_CURRENCIES+1 pairs), and public_inputs is
\* empty.
C8_CalldataIsColumnOrderedBigEndian ==
    gpc = "returned" =>
        /\ inclusion.public_inputs = <<>>
        /\ inclusion.proof_calldata = CalldataUpTo(N_CURRENCIES)
        /\ Len(inclusion.proof_calldata) = (N_CURRENCIES + 1) * 2 * CoordBytes

C8_Witness ==
    /\ gpc = "returned"
    /\ inclusion.proof_calldata[1] # inclusion.proof_calldata[2]
    /\ opened[1].kzg_proof # opened[2].kzg_proof

\* Columns whose polynomial does not take the entry's value at omega^user_index.
DisagreeingColumns ==
    {c \in Columns : EvalPoly(snapshot.advice_polys[c + 1], Power(Omega, user_index))
                        # EntryValue(user_index, c)}

Minimum(S) == CHOOSE m \in S : \A x \in S : m <= x

\* The entries agree with the column polynomials on every row.
EntriesAgree ==
    /\ AllColumnsPresent
    /\ \A r \in 0..(Len(snapshot.entries) - 1) : \A c \in Columns :
          EvalPoly(snapshot.advice_polys[c + 1], Power(Omega, r)) = EntryValue(r, c)

\* C9: a proof is returned only when every column's fresh opening verified
\* against the column's commitment, omega^user_index and the claimed value;
\* when some column's polynomial does not take the claimed value there, no
\* proof is returned and the call aborts at the first such column, before any
\* later column is processed; and when the entries agree with the polynomials
\* no self-check fails for a valid index.
C9_ProofOnlyAfterEverySelfCheck ==
    /\ gpc = "returned" =>
         /\ Len(opened) = N_CURRENCIES + 1
         /\ DisagreeingColumns = {}
         /\ \A c \in Columns :
               verify_kzg_proof(commit_kzg(snapshot.advice_polys[c + 1]),
                                opened[c + 1].kzg_proof, Power(Omega, user_index),
                                EntryValue(user_index, c))
    /\ (RequestActive /\ ValidIndex /\ AllColumnsPresent /\ DisagreeingColumns # {}) =>
         /\ gpc \in {"column", "panic_assert"}
         /\ column_index <= Minimum(DisagreeingColumns)
         /\ gpc = "panic_assert" =>
               /\ column_index = Minimum(DisagreeingColumns)
               /\ Len(opening_proofs) = column_index
    /\ (RequestActive /\ ValidIndex /\ EntriesAgree) =>
         gpc \in {"column", "returned"}

C9_Witness ==
    /\ gpc = "panic_assert"
    /\ column_index = 1
    /\ Len(opened) = 1

====
